---- MODULE Spec2Model ----
(***************************************************************************)
(* thinc/backends/_custom_kernels.py: the dispatch and validation layer    *)
(* in front of the compiled CUDA kernels.                                  *)
(*                                                                         *)
(* A state is the module after import (cupy, the bound kernel handles)     *)
(* together with one call of a dispatch function: its arguments, the       *)
(* buffers it can reach, the ordered events it issued (validation,         *)
(* allocation, kernel launch) and how it ended (returned buffers or an     *)
(* exception).                                                             *)
(***************************************************************************)
EXTENDS Integers, Sequences, FiniteSets, TLC

VARIABLES
    cupy,      \* "cupy" when the import succeeded, "None" otherwise
    handles,   \* module-level *_kernel_* names -> bound kernel (or NoneK)
    pc,        \* "idle": no call in progress; "done": a call has ended
    call,      \* the call: function name, scalar arguments, buffers at entry
    heap,      \* buffer name -> buffer, as the call left it
    trace,     \* ordered events of the call
    err,       \* the exception the call ended with (NoErr when it returned)
    ret        \* names of the returned buffers, in order

vars == <<cupy, handles, pc, call, heap, trace, err, ret>>

----------------------------------------------------------------------------
(* Bounds of the model *)

MaxRows == 2    \* leading dimension of a tensor, and len(lengths)
MaxLen == 1     \* entries of lengths and which range over -1..MaxLen
MaxP == 2       \* maxout pieces
MaxNW == 1      \* seq2col window

\* Trailing dimension of a tensor: the dispatch code only copies it into
\* shapes, so an empty and a non-empty one are the two cases there are.
Cols == {0, 1}

Rows == 0..MaxRows
Shapes2 == {<<r, c>> : r \in Rows, c \in Cols}
Dtypes == {"float16", "float32", "float64", "int32"}
IntDtypes == {"int32", "int64"}
IdxVals == -1..MaxLen

----------------------------------------------------------------------------
(* Buffers *)

RECURSIVE Prod(_)
Prod(shape) == IF shape = <<>> THEN 1 ELSE Head(shape) * Prod(Tail(shape))

RECURSIVE SumSeq(_)
SumSeq(s) == IF s = <<>> THEN 0 ELSE Head(s) + SumSeq(Tail(s))

\* The largest entry of a sequence of lengths (0 for none).
RECURSIVE MaxOf(_)
MaxOf(v) == IF v = <<>> THEN 0
            ELSE IF Head(v) > MaxOf(Tail(v)) THEN Head(v) ELSE MaxOf(Tail(v))

\* An array: element type, shape, the values of an integer array in row-major
\* order (<<>> for a float array), how the array came to be (origin) and
\* what last wrote its contents (tag).
Buf(dtype, shape, vals, origin, tag) ==
    [dtype |-> dtype, shape |-> shape, vals |-> vals, origin |-> origin, tag |-> tag]

FloatBuf(dtype, shape) == Buf(dtype, shape, <<>>, "caller", "caller")

IntBuf(dtype, shape, vals) == Buf(dtype, shape, vals, "caller", "caller")

Zeros(dtype, shape) ==
    Buf(dtype, shape,
        IF dtype = "int32" THEN [i \in 1..Prod(shape) |-> 0] ELSE <<>>,
        "cupy.zeros", "zeros")

\* Entry (b, o) of a two-dimensional integer array (0-based, row-major).
At2(b, r, c) == b.vals[r * b.shape[2] + c + 1]

----------------------------------------------------------------------------
(* Kernel registry and handle bindings *)

K(op, T) == [op |-> op, T |-> T]

NoneK == K("None", "")

TemplatedOps ==
    {"backprop_clipped_linear", "backprop_gelu", "backprop_hard_swish",
     "backprop_hard_swish_mobilenet", "backprop_maxout", "backprop_mish",
     "backprop_reduce_max", "backprop_reduce_mean", "backprop_reduce_sum",
     "backprop_seq2col", "backprop_swish", "clipped_linear", "gelu", "maxout",
     "mish", "reduce_max", "reduce_sum", "seq2col", "swish"}

KERNELS_LIST == {K(op, T) : op \in TemplatedOps, T \in {"double", "float"}}

KERNELS == IF cupy = "None" THEN "None" ELSE "RawModule"

_get_kernel(name) == IF KERNELS = "None" THEN NoneK ELSE name

compile_mmh == IF cupy = "None" THEN NoneK ELSE K("hash_data", "")

\* The module-level assignments: variable name -> name expression looked up.
Bindings ==
    [clipped_linear_kernel_float |-> K("clipped_linear", "float"),
     clipped_linear_kernel_double |-> K("clipped_linear", "double"),
     gelu_kernel_float |-> K("gelu", "float"),
     gelu_kernel_double |-> K("gelu", "double"),
     maxout_kernel_float |-> K("maxout", "float"),
     maxout_kernel_double |-> K("maxout", "double"),
     mish_kernel_float |-> K("mish", "float"),
     mish_kernel_double |-> K("mish", "double"),
     reduce_max_kernel_float |-> K("reduce_max", "float"),
     reduce_max_kernel_double |-> K("reduce_max", "double"),
     reduce_sum_kernel_float |-> K("reduce_sum", "float"),
     reduce_sum_kernel_double |-> K("reduce_sum", "double"),
     seq2col_kernel_float |-> K("seq2col", "float"),
     seq2col_kernel_double |-> K("seq2col", "double"),
     swish_kernel_float |-> K("swish", "float"),
     swish_kernel_double |-> K("swish", "double"),
     backprop_clipped_linear_kernel_double |-> K("backprop_clipped_linear", "double"),
     backprop_clipped_linear_kernel_float |-> K("backprop_clipped_linear", "float"),
     backprop_gelu_kernel_double |-> K("backprop_gelu", "double"),
     backprop_gelu_kernel_float |-> K("backprop_gelu", "float"),
     backprop_hard_swish_kernel_double |-> K("backprop_hard_swish", "double"),
     backprop_hard_swish_kernel_float |-> K("backprop_hard_swish", "float"),
     backprop_hard_swish_mobilenet_kernel_double |->
         K("backprop_hard_swish_mobilenet", "double"),
     backprop_hard_swish_mobilenet_kernel_float |->
         K("backprop_hard_swish_mobilenet", "float"),
     backprop_maxout_kernel_double |-> K("backprop_maxout", "double"),
     backprop_maxout_kernel_float |-> K("backprop_maxout", "float"),
     backprop_mish_kernel_double |-> K("backprop_mish", "double"),
     backprop_mish_kernel_float |-> K("backprop_mish", "float"),
     backprop_reduce_max_kernel_double |-> K("backprop_reduce_max", "double"),
     backprop_reduce_max_kernel_float |-> K("backprop_reduce_max", "float"),
     backprop_reduce_mean_kernel_double |-> K("backprop_reduce_mean", "double"),
     backprop_reduce_mean_kernel_float |-> K("backprop_reduce_mean", "float"),
     backprop_reduce_sum_kernel_double |-> K("backprop_reduce_sum", "double"),
     backprop_reduce_sum_kernel_float |-> K("backprop_reduce_sum", "float"),
     backprop_seq2col_kernel_double |-> K("backprop_seq2col", "double"),
     backprop_seq2col_kernel_float |-> K("backprop_seq2col", "float"),
     backprop_swish_kernel_double |-> K("backprop_swish", "double"),
     backprop_swish_kernel_float |-> K("backprop_swish", "float")]

\* The handles as bound while the module is imported.
LoadHandles ==
    [h \in DOMAIN Bindings \cup {"hash_data_kernel"} |->
        IF h = "hash_data_kernel" THEN compile_mmh ELSE _get_kernel(Bindings[h])]

----------------------------------------------------------------------------
(* The state of a call while it runs: buffers, events, pending exception.  *)
(* Every step below leaves the state alone once an exception is pending.   *)

NoShape == <<-1>>

NoErr == [kind |-> "none", msg |-> "", expected |-> NoShape, was |-> NoShape]

Exc(kind, msg) == [kind |-> kind, msg |-> msg, expected |-> NoShape, was |-> NoShape]

Ok(s) == s.err.kind = "none"

Raise(s, e) == [s EXCEPT !.err = e]

Event(ev, kernel, bufs) == [ev |-> ev, kernel |-> kernel, bufs |-> bufs]

Emit(s, e) == [s EXCEPT !.trace = Append(@, e)]

Start(h) == [heap |-> h, trace |-> <<>>, err |-> NoErr, ret |-> <<>>]

Return(s, ids) == IF Ok(s) THEN [s EXCEPT !.ret = ids] ELSE s

\* Attribute access on the cupy module: cupy.zeros, cupy.all, cupy.sum, ...
CupyAttr(s) ==
    IF cupy = "None"
    THEN Raise(s, Exc("AttributeError", "'NoneType' object has no attribute"))
    ELSE s

\* id = cupy.zeros(shape, dtype=dtype)
cupy_zeros(s, id, shape, dtype) ==
    IF ~Ok(s) THEN s
    ELSE LET a == CupyAttr(s) IN
         IF ~Ok(a) THEN a
         ELSE Emit([a EXCEPT !.heap = (id :> Zeros(dtype, shape)) @@ @],
                   Event("alloc", NoneK, <<id>>))

\* id = cupy.zeros_like(src)
cupy_zeros_like(s, id, src) ==
    IF ~Ok(s) THEN s
    ELSE cupy_zeros(s, id, s.heap[src].shape, s.heap[src].dtype)

\* What a launched kernel does to the buffers it is handed: it overwrites
\* its output buffers (outs); an int32 output receives the values w.
KernelWrite(h, k, outs, w) ==
    [id \in DOMAIN h |->
        IF id \in {outs[i] : i \in DOMAIN outs}
        THEN IF h[id].dtype = "int32"
             THEN [h[id] EXCEPT !.vals = w, !.tag = k.op]
             ELSE [h[id] EXCEPT !.tag = k.op]
        ELSE h[id]]

\* handle((num_blocks,), (threads_per_block,), (bufs..., scalars...))
Launch(s, handle, bufs, outs, w) ==
    IF ~Ok(s) THEN s
    ELSE IF handles[handle] = NoneK
    THEN Raise(s, Exc("TypeError", "'NoneType' object is not callable"))
    ELSE Emit([s EXCEPT !.heap = KernelWrite(@, handles[handle], outs, w)],
              Event("launch", handles[handle], bufs))

----------------------------------------------------------------------------
(* Validation helpers *)

\* _is_float_array without the comparison of shapes.
_is_float_array_any_shape(s, id, shape) ==
    IF ~Ok(s) THEN s
    ELSE IF s.heap[id].dtype \notin {"float32", "float64"}
    THEN Raise(s, Exc("AssertionError",
                      "CUDA kernel can only handle float32 and float64"))
    ELSE Emit(s, Event("check", NoneK, <<id>>))

_is_float_array(s, id, shape) ==
    IF ~Ok(s) THEN s
    ELSE IF s.heap[id].dtype \notin {"float32", "float64"}
    THEN Raise(s, Exc("AssertionError",
                      "CUDA kernel can only handle float32 and float64"))
    ELSE IF shape # NoShape /\ s.heap[id].shape # shape
    THEN Raise(s, [kind |-> "ValueError", msg |-> "array has incorrect shape",
                   expected |-> shape, was |-> s.heap[id].shape])
    ELSE Emit(s, Event("check", NoneK, <<id>>))

\* _check_lengths with the sum compared before the signs are looked at.
_check_lengths_sum_first(s, id, n_elems) ==
    IF ~Ok(s) THEN s
    ELSE IF s.heap[id].dtype # "int32"
    THEN Raise(s, Exc("AssertionError",
                      "lengths should be encoded as 32-bit integers"))
    ELSE LET a == CupyAttr(s)
             v == s.heap[id].vals
         IN  IF ~Ok(a) THEN a
             ELSE IF SumSeq(v) # n_elems
             THEN Raise(a, Exc("IndexError", "lengths must sum up to the batch size"))
             ELSE IF ~(\A i \in DOMAIN v : v[i] >= 0)
             THEN Raise(a, Exc("ValueError", "all sequence lengths must be >= 0"))
             ELSE Emit(a, Event("check", NoneK, <<id>>))

_check_lengths(s, id, n_elems) ==
    IF ~Ok(s) THEN s
    ELSE IF s.heap[id].dtype # "int32"
    THEN Raise(s, Exc("AssertionError",
                      "lengths should be encoded as 32-bit integers"))
    ELSE LET a == CupyAttr(s)
             v == s.heap[id].vals
         IN  IF ~Ok(a) THEN a
             ELSE IF ~(\A i \in DOMAIN v : v[i] >= 0)
             THEN Raise(a, Exc("ValueError", "all sequence lengths must be >= 0"))
             ELSE IF SumSeq(v) # n_elems
             THEN Raise(a, Exc("IndexError", "lengths must sum up to the batch size"))
             ELSE Emit(a, Event("check", NoneK, <<id>>))

\* lengths is None: the whole batch is one sequence.
check_seq2col_lengths(s, given, B) ==
    IF ~Ok(s) THEN s
    ELSE IF ~given
    THEN LET a == CupyAttr(s) IN
         IF ~Ok(a) THEN a
         ELSE Emit([a EXCEPT !.heap =
                        ("lengths" :> Buf("int32", <<1>>, <<B>>, "cupy.array", "array")) @@ @],
                   Event("alloc", NoneK, <<"lengths">>))
    ELSE _check_lengths(s, "lengths", B)

\* The reduction kernel within_range: x >= lower && x < upper, folded with &.
_values_within_range(x, lower, upper) ==
    \A i \in DOMAIN x.vals : x.vals[i] >= lower /\ x.vals[i] < upper

_check_which_maxout(s, id, B, I, P) ==
    IF ~Ok(s) THEN s
    ELSE IF s.heap[id].dtype # "int32"
    THEN Raise(s, Exc("AssertionError",
                      "maximum index (which) should be encoded as 32-bit integers"))
    ELSE IF s.heap[id].shape # <<B, I>>
    THEN Raise(s, [kind |-> "ValueError",
                   msg |-> "maximum index (which) has incorrect shape",
                   expected |-> <<B, I>>, was |-> s.heap[id].shape])
    ELSE IF cupy = "None"
    THEN Raise(s, Exc("TypeError", "'NoneType' object is not callable"))
    ELSE IF ~_values_within_range(s.heap[id], 0, P)
    THEN Raise(s, Exc("IndexError", "maximum index (which) value out of bounds"))
    ELSE Emit(s, Event("check", NoneK, <<id>>))

\* _check_which_reduce_max with one bound for all segments, the longest
\* segment's length.
_check_which_reduce_max_global(s, id, shape, lengths) ==
    IF ~Ok(s) THEN s
    ELSE IF s.heap[id].dtype # "int32"
    THEN Raise(s, Exc("AssertionError",
                      "maximum index (which) should be encoded as 32-bit integers"))
    ELSE IF s.heap[id].shape # shape
    THEN Raise(s, [kind |-> "ValueError",
                   msg |-> "maximum index (which) has incorrect shape",
                   expected |-> shape, was |-> s.heap[id].shape])
    ELSE LET a == CupyAttr(s) IN
         IF ~Ok(a) THEN a
         ELSE IF ~_values_within_range(s.heap[id], 0, MaxOf(s.heap[lengths].vals))
         THEN Raise(a, Exc("IndexError", "maximum index (which) value out of bounds"))
         ELSE Emit(a, Event("check", NoneK, <<id>>))

_check_which_reduce_max(s, id, shape, lengths) ==
    IF ~Ok(s) THEN s
    ELSE IF s.heap[id].dtype # "int32"
    THEN Raise(s, Exc("AssertionError",
                      "maximum index (which) should be encoded as 32-bit integers"))
    ELSE IF s.heap[id].shape # shape
    THEN Raise(s, [kind |-> "ValueError",
                   msg |-> "maximum index (which) has incorrect shape",
                   expected |-> shape, was |-> s.heap[id].shape])
    ELSE LET a == CupyAttr(s)
             wh == s.heap[id]
             ln == s.heap[lengths].vals
         IN  IF ~Ok(a) THEN a
             ELSE IF ~(\A b \in 0..(shape[1] - 1) : \A o \in 0..(shape[2] - 1) :
                          At2(wh, b, o) >= 0 /\ At2(wh, b, o) < ln[b + 1])
             THEN Raise(a, Exc("IndexError",
                               "maximum index (which) value out of bounds"))
             ELSE Emit(a, Event("check", NoneK, <<id>>))

----------------------------------------------------------------------------
(* Dispatch functions: forward activations *)

\* `out = X; if not inplace: out = cupy.zeros_like(X)`: the name of the
\* buffer that out refers to.
OutOf(src, inplace) == IF inplace THEN src ELSE "out"

clipped_linear(s0, inplace) ==
    LET s1 == _is_float_array(s0, "X", NoShape)
        s2 == IF inplace THEN s1 ELSE cupy_zeros_like(s1, "out", "X")
        out == OutOf("X", inplace)
        s3 == IF s0.heap["X"].dtype = "float32"
              THEN Launch(s2, "clipped_linear_kernel_float", <<out, "X">>, <<out>>, <<>>)
              ELSE Launch(s2, "clipped_linear_kernel_double", <<out, "X">>, <<out>>, <<>>)
    IN  Return(s3, <<out>>)

gelu(s0, inplace) ==
    LET s1 == _is_float_array(s0, "X", NoShape)
        s2 == IF inplace THEN s1 ELSE cupy_zeros_like(s1, "out", "X")
        out == OutOf("X", inplace)
        s3 == IF s0.heap["X"].dtype = "float32"
              THEN Launch(s2, "gelu_kernel_float", <<out, "X">>, <<out>>, <<>>)
              ELSE Launch(s2, "gelu_kernel_double", <<out, "X">>, <<out>>, <<>>)
    IN  Return(s3, <<out>>)

mish(s0, inplace) ==
    LET s1 == _is_float_array(s0, "X", NoShape)
        s2 == IF inplace THEN s1 ELSE cupy_zeros_like(s1, "out", "X")
        out == OutOf("X", inplace)
        s3 == IF s0.heap["X"].dtype = "float32"
              THEN Launch(s2, "mish_kernel_float", <<out, "X">>, <<out>>, <<>>)
              ELSE Launch(s2, "mish_kernel_double", <<out, "X">>, <<out>>, <<>>)
    IN  Return(s3, <<out>>)

swish(s0, inplace) ==
    LET s1 == _is_float_array(s0, "X", NoShape)
        s2 == IF inplace THEN s1 ELSE cupy_zeros_like(s1, "out", "X")
        out == OutOf("X", inplace)
        s3 == IF s0.heap["X"].dtype = "float32"
              THEN Launch(s2, "swish_kernel_float", <<out, "X">>, <<out>>, <<>>)
              ELSE Launch(s2, "swish_kernel_double", <<out, "X">>, <<out>>, <<>>)
    IN  Return(s3, <<out>>)

----------------------------------------------------------------------------
(* Dispatch functions: backward activations *)

backprop_clipped_linear(s0, inplace) ==
    LET s1 == _is_float_array(s0, "dY", NoShape)
        s2 == _is_float_array(s1, "X", s0.heap["dY"].shape)
        s3 == IF inplace THEN s2 ELSE cupy_zeros_like(s2, "out", "dY")
        out == OutOf("dY", inplace)
        s4 == IF s0.heap["dY"].dtype = "float32"
              THEN Launch(s3, "backprop_clipped_linear_kernel_float", <<out, "dY", "X">>, <<out>>, <<>>)
              ELSE Launch(s3, "backprop_clipped_linear_kernel_double", <<out, "dY", "X">>, <<out>>, <<>>)
    IN  Return(s4, <<out>>)

backprop_hard_swish(s0, inplace) ==
    LET s1 == _is_float_array(s0, "dY", NoShape)
        s2 == _is_float_array(s1, "X", s0.heap["dY"].shape)
        s3 == IF inplace THEN s2 ELSE cupy_zeros_like(s2, "out", "dY")
        out == OutOf("dY", inplace)
        s4 == IF s0.heap["dY"].dtype = "float32"
              THEN Launch(s3, "backprop_hard_swish_kernel_float", <<out, "dY", "X">>, <<out>>, <<>>)
              ELSE Launch(s3, "backprop_hard_swish_kernel_double", <<out, "dY", "X">>, <<out>>, <<>>)
    IN  Return(s4, <<out>>)

backprop_hard_swish_mobilenet(s0, inplace) ==
    LET s1 == _is_float_array(s0, "dY", NoShape)
        s2 == _is_float_array(s1, "X", s0.heap["dY"].shape)
        s3 == IF inplace THEN s2 ELSE cupy_zeros_like(s2, "out", "dY")
        out == OutOf("dY", inplace)
        s4 == IF s0.heap["dY"].dtype = "float32"
              THEN Launch(s3, "backprop_hard_swish_mobilenet_kernel_float", <<out, "dY", "X">>, <<out>>, <<>>)
              ELSE Launch(s3, "backprop_hard_swish_mobilenet_kernel_double", <<out, "dY", "X">>, <<out>>, <<>>)
    IN  Return(s4, <<out>>)

\* backprop_gelu with the test of the inplace flag inverted.
backprop_gelu_flag_inverted(s0, inplace) ==
    LET s1 == _is_float_array(s0, "dY", NoShape)
        s2 == _is_float_array(s1, "X", s0.heap["dY"].shape)
        s3 == IF ~inplace THEN s2 ELSE cupy_zeros_like(s2, "out", "dY")
        out == OutOf("dY", ~inplace)
        s4 == IF s0.heap["dY"].dtype = "float32"
              THEN Launch(s3, "backprop_gelu_kernel_float", <<out, "dY", "X">>, <<out>>, <<>>)
              ELSE Launch(s3, "backprop_gelu_kernel_double", <<out, "dY", "X">>, <<out>>, <<>>)
    IN  Return(s4, <<out>>)

backprop_gelu(s0, inplace) ==
    LET s1 == _is_float_array(s0, "dY", NoShape)
        s2 == _is_float_array(s1, "X", s0.heap["dY"].shape)
        s3 == IF inplace THEN s2 ELSE cupy_zeros_like(s2, "out", "dY")
        out == OutOf("dY", inplace)
        s4 == IF s0.heap["dY"].dtype = "float32"
              THEN Launch(s3, "backprop_gelu_kernel_float", <<out, "dY", "X">>, <<out>>, <<>>)
              ELSE Launch(s3, "backprop_gelu_kernel_double", <<out, "dY", "X">>, <<out>>, <<>>)
    IN  Return(s4, <<out>>)

backprop_mish(s0, inplace) ==
    LET s1 == _is_float_array(s0, "dY", NoShape)
        s2 == _is_float_array(s1, "X", s0.heap["dY"].shape)
        s3 == IF inplace THEN s2 ELSE cupy_zeros_like(s2, "out", "dY")
        out == OutOf("dY", inplace)
        s4 == IF s0.heap["dY"].dtype = "float32"
              THEN Launch(s3, "backprop_mish_kernel_float", <<out, "dY", "X">>, <<out>>, <<>>)
              ELSE Launch(s3, "backprop_mish_kernel_double", <<out, "dY", "X">>, <<out>>, <<>>)
    IN  Return(s4, <<out>>)

backprop_swish(s0, inplace) ==
    LET s1 == _is_float_array(s0, "dY", NoShape)
        s2 == _is_float_array(s1, "X", s0.heap["dY"].shape)
        s3 == _is_float_array(s2, "Y", s0.heap["dY"].shape)
        s4 == IF inplace THEN s3 ELSE cupy_zeros_like(s3, "out", "dY")
        out == OutOf("dY", inplace)
        s5 == IF s0.heap["dY"].dtype = "float32"
              THEN Launch(s4, "backprop_swish_kernel_float",
                          <<out, "dY", "X", "Y">>, <<out>>, <<>>)
              ELSE Launch(s4, "backprop_swish_kernel_double",
                          <<out, "dY", "X", "Y">>, <<out>>, <<>>)
    IN  Return(s5, <<out>>)

----------------------------------------------------------------------------
(* Dispatch functions: seq2col, maxout, segment reductions, hash *)

\* seq2col without the test for an empty input or empty lengths.
seq2col_always_launch(s0, nW, given) ==
    LET X == s0.heap["X"]
        s1 == _is_float_array(s0, "X", NoShape)
        B == X.shape[1]
        nF == nW * 2 + 1
        I == X.shape[2]
        s2 == check_seq2col_lengths(s1, given, B)
        s3 == cupy_zeros(s2, "out", <<B, I * nF>>, X.dtype)
        s4 == IF X.dtype = "float32"
              THEN Launch(s3, "seq2col_kernel_float",
                          <<"out", "X", "lengths">>, <<"out">>, <<>>)
              ELSE Launch(s3, "seq2col_kernel_double",
                          <<"out", "X", "lengths">>, <<"out">>, <<>>)
    IN  Return(s4, <<"out">>)

seq2col(s0, nW, given) ==
    LET X == s0.heap["X"]
        s1 == _is_float_array(s0, "X", NoShape)
        B == X.shape[1]
        nF == nW * 2 + 1
        I == X.shape[2]
        s2 == check_seq2col_lengths(s1, given, B)
        s3 == cupy_zeros(s2, "out", <<B, I * nF>>, X.dtype)
        s4 == IF Ok(s3) /\ Prod(X.shape) # 0 /\ Prod(s3.heap["lengths"].shape) # 0
              THEN IF X.dtype = "float32"
                   THEN Launch(s3, "seq2col_kernel_float",
                               <<"out", "X", "lengths">>, <<"out">>, <<>>)
                   ELSE Launch(s3, "seq2col_kernel_double",
                               <<"out", "X", "lengths">>, <<"out">>, <<>>)
              ELSE s3
    IN  Return(s4, <<"out">>)

backprop_seq2col(s0, nW, given) ==
    LET dY == s0.heap["dY"]
        s1 == _is_float_array(s0, "dY", NoShape)
        B == dY.shape[1]
        nF == nW * 2 + 1
        I == dY.shape[2] \div nF
        s2 == check_seq2col_lengths(s1, given, B)
        s3 == cupy_zeros(s2, "out", <<B, I>>, dY.dtype)
        s4 == IF Ok(s3) /\ Prod(dY.shape) # 0 /\ Prod(s3.heap["lengths"].shape) # 0
              THEN IF dY.dtype = "float32"
                   THEN Launch(s3, "backprop_seq2col_kernel_float",
                               <<"out", "dY", "lengths">>, <<"out">>, <<>>)
                   ELSE Launch(s3, "backprop_seq2col_kernel_double",
                               <<"out", "dY", "lengths">>, <<"out">>, <<>>)
              ELSE s3
    IN  Return(s4, <<"out">>)

\* w: the winning indices the kernel writes into which.
maxout(s0, w) ==
    LET X == s0.heap["X"]
        s1 == _is_float_array(s0, "X", NoShape)
        B == X.shape[1]
        I == X.shape[2]
        s2 == cupy_zeros(s1, "best", <<B, I>>, X.dtype)
        s3 == cupy_zeros(s2, "which", <<B, I>>, "int32")
        s4 == IF X.dtype = "float32"
              THEN Launch(s3, "maxout_kernel_float",
                          <<"best", "which", "X">>, <<"best", "which">>, w)
              ELSE Launch(s3, "maxout_kernel_double",
                          <<"best", "which", "X">>, <<"best", "which">>, w)
    IN  Return(s4, <<"best", "which">>)

reduce_sum(s0) ==
    LET X == s0.heap["X"]
        s1 == _is_float_array(s0, "X", NoShape)
        B == s0.heap["lengths"].shape[1]
        T == X.shape[1]
        O == X.shape[2]
        s2 == _check_lengths(s1, "lengths", T)
        s3 == cupy_zeros(s2, "out", <<B, O>>, X.dtype)
        s4 == IF X.dtype = "float32"
              THEN Launch(s3, "reduce_sum_kernel_float",
                          <<"out", "X", "lengths">>, <<"out">>, <<>>)
              ELSE Launch(s3, "reduce_sum_kernel_double",
                          <<"out", "X", "lengths">>, <<"out">>, <<>>)
    IN  Return(s4, <<"out">>)

\* out /= lengths.reshape((-1, 1)) + 1e-10
DivideByLengths(s) ==
    IF ~Ok(s) THEN s
    ELSE Emit([s EXCEPT !.heap["out"].tag = "reduce_sum / (lengths + 1e-10)"],
              Event("divide", NoneK, <<"out", "lengths">>))

\* reduce_mean launching the <float> kernel on both branches.
reduce_mean_float_only(s0) ==
    LET X == s0.heap["X"]
        s1 == _is_float_array(s0, "X", NoShape)
        B == s0.heap["lengths"].shape[1]
        T == X.shape[1]
        O == X.shape[2]
        s2 == _check_lengths(s1, "lengths", T)
        s3 == cupy_zeros(s2, "out", <<B, O>>, X.dtype)
        s4 == Launch(s3, "reduce_sum_kernel_float",
                     <<"out", "X", "lengths">>, <<"out">>, <<>>)
        s5 == DivideByLengths(s4)
    IN  Return(s5, <<"out">>)

reduce_mean(s0) ==
    LET X == s0.heap["X"]
        s1 == _is_float_array(s0, "X", NoShape)
        B == s0.heap["lengths"].shape[1]
        T == X.shape[1]
        O == X.shape[2]
        s2 == _check_lengths(s1, "lengths", T)
        s3 == cupy_zeros(s2, "out", <<B, O>>, X.dtype)
        s4 == IF X.dtype = "float32"
              THEN Launch(s3, "reduce_sum_kernel_float",
                          <<"out", "X", "lengths">>, <<"out">>, <<>>)
              ELSE Launch(s3, "reduce_sum_kernel_double",
                          <<"out", "X", "lengths">>, <<"out">>, <<>>)
        s5 == DivideByLengths(s4)
    IN  Return(s5, <<"out">>)

reduce_max(s0, w) ==
    LET X == s0.heap["X"]
        s1 == _is_float_array(s0, "X", NoShape)
        B == s0.heap["lengths"].shape[1]
        T == X.shape[1]
        O == X.shape[2]
        s2 == _check_lengths(s1, "lengths", T)
        s3 == cupy_zeros(s2, "maxes", <<B, O>>, X.dtype)
        s4 == cupy_zeros(s3, "which", <<B, O>>, "int32")
        s5 == IF X.dtype = "float32"
              THEN Launch(s4, "reduce_max_kernel_float",
                          <<"maxes", "which", "X", "lengths">>, <<"maxes", "which">>, w)
              ELSE Launch(s4, "reduce_max_kernel_double",
                          <<"maxes", "which", "X", "lengths">>, <<"maxes", "which">>, w)
    IN  Return(s5, <<"maxes", "which">>)

\* backprop_maxout checking which only after the launch.
backprop_maxout_check_late(s0, P) ==
    LET dY == s0.heap["dY"]
        s1 == _is_float_array(s0, "dY", NoShape)
        B == dY.shape[1]
        I == dY.shape[2]
        s2 == cupy_zeros(s1, "out", <<B, I, P>>, dY.dtype)
        s3 == IF dY.dtype = "float32"
              THEN Launch(s2, "backprop_maxout_kernel_float",
                          <<"out", "dY", "which">>, <<"out">>, <<>>)
              ELSE Launch(s2, "backprop_maxout_kernel_double",
                          <<"out", "dY", "which">>, <<"out">>, <<>>)
        s4 == _check_which_maxout(s3, "which", B, I, P)
    IN  Return(s4, <<"out">>)

backprop_maxout(s0, P) ==
    LET dY == s0.heap["dY"]
        s1 == _is_float_array(s0, "dY", NoShape)
        B == dY.shape[1]
        I == dY.shape[2]
        s2 == cupy_zeros(s1, "out", <<B, I, P>>, dY.dtype)
        s3 == _check_which_maxout(s2, "which", B, I, P)
        s4 == IF dY.dtype = "float32"
              THEN Launch(s3, "backprop_maxout_kernel_float",
                          <<"out", "dY", "which">>, <<"out">>, <<>>)
              ELSE Launch(s3, "backprop_maxout_kernel_double",
                          <<"out", "dY", "which">>, <<"out">>, <<>>)
    IN  Return(s4, <<"out">>)

backprop_reduce_sum(s0) ==
    LET d_sum == s0.heap["d_sum"]
        s1 == _is_float_array(s0, "d_sum", NoShape)
        B == s0.heap["lengths"].shape[1]
        T == SumSeq(s0.heap["lengths"].vals)
        O == d_sum.shape[2]
        s2 == _check_lengths(s1, "lengths", T)
        s3 == cupy_zeros(s2, "out", <<T, O>>, d_sum.dtype)
        s4 == IF d_sum.dtype = "float32"
              THEN Launch(s3, "backprop_reduce_sum_kernel_float",
                          <<"out", "d_sum", "lengths">>, <<"out">>, <<>>)
              ELSE Launch(s3, "backprop_reduce_sum_kernel_double",
                          <<"out", "d_sum", "lengths">>, <<"out">>, <<>>)
    IN  Return(s4, <<"out">>)

backprop_reduce_mean(s0) ==
    LET d_mean == s0.heap["d_mean"]
        s1 == _is_float_array(s0, "d_mean", NoShape)
        B == s0.heap["lengths"].shape[1]
        T == SumSeq(s0.heap["lengths"].vals)
        O == d_mean.shape[2]
        s2 == _check_lengths(s1, "lengths", T)
        s3 == cupy_zeros(s2, "out", <<T, O>>, d_mean.dtype)
        s4 == IF d_mean.dtype = "float32"
              THEN Launch(s3, "backprop_reduce_mean_kernel_float",
                          <<"out", "d_mean", "lengths">>, <<"out">>, <<>>)
              ELSE Launch(s3, "backprop_reduce_mean_kernel_double",
                          <<"out", "d_mean", "lengths">>, <<"out">>, <<>>)
    IN  Return(s4, <<"out">>)

backprop_reduce_max(s0) ==
    LET d_maxes == s0.heap["d_maxes"]
        s1 == _is_float_array(s0, "d_maxes", NoShape)
        B == s0.heap["lengths"].shape[1]
        T == SumSeq(s0.heap["lengths"].vals)
        O == d_maxes.shape[2]
        s2 == _check_lengths(s1, "lengths", T)
        s3 == cupy_zeros(s2, "out", <<T, O>>, d_maxes.dtype)
        s4 == _check_which_reduce_max(s3, "which", <<B, O>>, "lengths")
        s5 == IF d_maxes.dtype = "float32"
              THEN Launch(s4, "backprop_reduce_max_kernel_float",
                          <<"out", "d_maxes", "which", "lengths">>, <<"out">>, <<>>)
              ELSE Launch(s4, "backprop_reduce_max_kernel_double",
                          <<"out", "d_maxes", "which", "lengths">>, <<"out">>, <<>>)
    IN  Return(s5, <<"out">>)

hash(s0, seed) ==
    LET s1 == cupy_zeros(s0, "out", <<s0.heap["ids"].shape[1], 4>>, "uint32")
        s2 == Launch(s1, "hash_data_kernel", <<"out", "ids">>, <<"out">>, <<>>)
    IN  Return(s2, <<"out">>)

----------------------------------------------------------------------------
(* Arguments a caller can pass *)

FloatBufs == {FloatBuf(d, sh) : d \in Dtypes, sh \in Shapes2}

MaxoutInputs ==
    {FloatBuf(d, <<B, I, P>>) : d \in Dtypes, B \in Rows, I \in Cols, P \in 0..MaxP}

LengthsBufs ==
    UNION {{IntBuf(d, <<n>>, v) : d \in IntDtypes, v \in [1..n -> IdxVals]} : n \in Rows}

\* Index buffers offered where shape is expected: every int32 content of that
\* shape, one of another element type and one of another shape.
WhichBufs(shape, vals) ==
    {IntBuf("int32", shape, v) : v \in [1..Prod(shape) -> vals]}
        \cup {IntBuf("int64", shape, [i \in 1..Prod(shape) |-> 0])}
        \cup {IntBuf("int32", <<shape[1] + 1, shape[2]>>,
                     [i \in 1..((shape[1] + 1) * shape[2]) |-> 0])}

\* The index a max kernel can report for a group of n candidates: one of the
\* candidates; with no candidate there is none to report and any value may
\* be left in the slot.
ArgmaxChoices(n) == IF n > 0 THEN 0..(n - 1) ELSE IdxVals

\* The contents of which after maxout's kernel ran on a (B, I, P) input.
MaxoutWhich(B, I, P) == [1..(B * I) -> ArgmaxChoices(P)]

\* The contents of which after reduce_max's kernel ran: row b indexes into
\* segment b.
ReduceMaxWhich(B, O, lens) ==
    {f \in [1..(B * O) -> IdxVals] :
        \A b \in 0..(B - 1) : \A o \in 0..(O - 1) :
            f[b * O + o + 1] \in ArgmaxChoices(lens[b + 1])}

----------------------------------------------------------------------------
(* Actions: one call of each dispatch function, from entry to exit *)

Call(fn, inplace, nW, P, given, h0) ==
    [fn |-> fn, inplace |-> inplace, nW |-> nW, P |-> P, given |-> given, pre |-> h0]

NoCall == Call("", FALSE, 0, 0, FALSE, <<>>)

Finish(c, s) ==
    /\ pc' = "done"
    /\ call' = c
    /\ heap' = s.heap
    /\ trace' = s.trace
    /\ err' = s.err
    /\ ret' = s.ret
    /\ UNCHANGED <<cupy, handles>>

Call_clipped_linear ==
    /\ pc = "idle"
    /\ \E X \in FloatBufs, inplace \in BOOLEAN :
           LET h0 == "X" :> X IN
           Finish(Call("clipped_linear", inplace, 0, 0, FALSE, h0),
                  clipped_linear(Start(h0), inplace))

Call_gelu ==
    /\ pc = "idle"
    /\ \E X \in FloatBufs, inplace \in BOOLEAN :
           LET h0 == "X" :> X IN
           Finish(Call("gelu", inplace, 0, 0, FALSE, h0), gelu(Start(h0), inplace))

Call_mish ==
    /\ pc = "idle"
    /\ \E X \in FloatBufs, inplace \in BOOLEAN :
           LET h0 == "X" :> X IN
           Finish(Call("mish", inplace, 0, 0, FALSE, h0), mish(Start(h0), inplace))

Call_swish ==
    /\ pc = "idle"
    /\ \E X \in FloatBufs, inplace \in BOOLEAN :
           LET h0 == "X" :> X IN
           Finish(Call("swish", inplace, 0, 0, FALSE, h0), swish(Start(h0), inplace))

Call_backprop_clipped_linear ==
    /\ pc = "idle"
    /\ \E dY \in FloatBufs, X \in FloatBufs, inplace \in BOOLEAN :
           LET h0 == ("dY" :> dY) @@ ("X" :> X) IN
           Finish(Call("backprop_clipped_linear", inplace, 0, 0, FALSE, h0),
                  backprop_clipped_linear(Start(h0), inplace))

Call_backprop_hard_swish ==
    /\ pc = "idle"
    /\ \E dY \in FloatBufs, X \in FloatBufs, inplace \in BOOLEAN :
           LET h0 == ("dY" :> dY) @@ ("X" :> X) IN
           Finish(Call("backprop_hard_swish", inplace, 0, 0, FALSE, h0),
                  backprop_hard_swish(Start(h0), inplace))

Call_backprop_hard_swish_mobilenet ==
    /\ pc = "idle"
    /\ \E dY \in FloatBufs, X \in FloatBufs, inplace \in BOOLEAN :
           LET h0 == ("dY" :> dY) @@ ("X" :> X) IN
           Finish(Call("backprop_hard_swish_mobilenet", inplace, 0, 0, FALSE, h0),
                  backprop_hard_swish_mobilenet(Start(h0), inplace))

Call_backprop_gelu ==
    /\ pc = "idle"
    /\ \E dY \in FloatBufs, X \in FloatBufs, inplace \in BOOLEAN :
           LET h0 == ("dY" :> dY) @@ ("X" :> X) IN
           Finish(Call("backprop_gelu", inplace, 0, 0, FALSE, h0),
                  backprop_gelu(Start(h0), inplace))

Call_backprop_mish ==
    /\ pc = "idle"
    /\ \E dY \in FloatBufs, X \in FloatBufs, inplace \in BOOLEAN :
           LET h0 == ("dY" :> dY) @@ ("X" :> X) IN
           Finish(Call("backprop_mish", inplace, 0, 0, FALSE, h0),
                  backprop_mish(Start(h0), inplace))

Call_backprop_swish ==
    /\ pc = "idle"
    /\ \E dY \in FloatBufs, X \in FloatBufs, Y \in FloatBufs, inplace \in BOOLEAN :
           LET h0 == ("dY" :> dY) @@ ("X" :> X) @@ ("Y" :> Y) IN
           Finish(Call("backprop_swish", inplace, 0, 0, FALSE, h0),
                  backprop_swish(Start(h0), inplace))

Call_seq2col ==
    /\ pc = "idle"
    /\ \E X \in FloatBufs, nW \in 0..MaxNW :
           \/ LET h0 == "X" :> X IN
              Finish(Call("seq2col", FALSE, nW, 0, FALSE, h0),
                     seq2col(Start(h0), nW, FALSE))
           \/ \E lengths \in LengthsBufs :
                  LET h0 == ("X" :> X) @@ ("lengths" :> lengths) IN
                  Finish(Call("seq2col", FALSE, nW, 0, TRUE, h0),
                         seq2col(Start(h0), nW, TRUE))

Call_backprop_seq2col ==
    /\ pc = "idle"
    /\ \E dY \in FloatBufs, nW \in 0..MaxNW :
           \/ LET h0 == "dY" :> dY IN
              Finish(Call("backprop_seq2col", FALSE, nW, 0, FALSE, h0),
                     backprop_seq2col(Start(h0), nW, FALSE))
           \/ \E lengths \in LengthsBufs :
                  LET h0 == ("dY" :> dY) @@ ("lengths" :> lengths) IN
                  Finish(Call("backprop_seq2col", FALSE, nW, 0, TRUE, h0),
                         backprop_seq2col(Start(h0), nW, TRUE))

Call_maxout ==
    /\ pc = "idle"
    /\ \E X \in MaxoutInputs :
           \E w \in MaxoutWhich(X.shape[1], X.shape[2], X.shape[3]) :
               LET h0 == "X" :> X IN
               Finish(Call("maxout", FALSE, 0, X.shape[3], FALSE, h0),
                      maxout(Start(h0), w))

Call_reduce_sum ==
    /\ pc = "idle"
    /\ \E X \in FloatBufs, lengths \in LengthsBufs :
           LET h0 == ("X" :> X) @@ ("lengths" :> lengths) IN
           Finish(Call("reduce_sum", FALSE, 0, 0, TRUE, h0), reduce_sum(Start(h0)))

Call_reduce_mean ==
    /\ pc = "idle"
    /\ \E X \in FloatBufs, lengths \in LengthsBufs :
           LET h0 == ("X" :> X) @@ ("lengths" :> lengths) IN
           Finish(Call("reduce_mean", FALSE, 0, 0, TRUE, h0), reduce_mean(Start(h0)))

Call_reduce_max ==
    /\ pc = "idle"
    /\ \E X \in FloatBufs, lengths \in LengthsBufs :
           \E w \in ReduceMaxWhich(lengths.shape[1], X.shape[2], lengths.vals) :
               LET h0 == ("X" :> X) @@ ("lengths" :> lengths) IN
               Finish(Call("reduce_max", FALSE, 0, 0, TRUE, h0),
                      reduce_max(Start(h0), w))

Call_backprop_maxout ==
    /\ pc = "idle"
    /\ \E dY \in FloatBufs, P \in 0..MaxP :
           \E which \in WhichBufs(dY.shape, -1..MaxP) :
               LET h0 == ("dY" :> dY) @@ ("which" :> which) IN
               Finish(Call("backprop_maxout", FALSE, 0, P, FALSE, h0),
                      backprop_maxout(Start(h0), P))

Call_backprop_reduce_sum ==
    /\ pc = "idle"
    /\ \E d_sum \in FloatBufs, lengths \in LengthsBufs :
           LET h0 == ("d_sum" :> d_sum) @@ ("lengths" :> lengths) IN
           Finish(Call("backprop_reduce_sum", FALSE, 0, 0, TRUE, h0),
                  backprop_reduce_sum(Start(h0)))

Call_backprop_reduce_mean ==
    /\ pc = "idle"
    /\ \E d_mean \in FloatBufs, lengths \in LengthsBufs :
           LET h0 == ("d_mean" :> d_mean) @@ ("lengths" :> lengths) IN
           Finish(Call("backprop_reduce_mean", FALSE, 0, 0, TRUE, h0),
                  backprop_reduce_mean(Start(h0)))

Call_backprop_reduce_max ==
    /\ pc = "idle"
    /\ \E d_maxes \in FloatBufs, lengths \in LengthsBufs :
           \E which \in WhichBufs(<<lengths.shape[1], d_maxes.shape[2]>>, IdxVals) :
               LET h0 == ("d_maxes" :> d_maxes) @@ ("lengths" :> lengths)
                             @@ ("which" :> which) IN
               Finish(Call("backprop_reduce_max", FALSE, 0, 0, TRUE, h0),
                      backprop_reduce_max(Start(h0)))

Call_hash ==
    /\ pc = "idle"
    /\ \E n \in Rows, seed \in {0, 1} :
           LET h0 == "ids" :> Buf("uint64", <<n>>, <<>>, "caller", "caller") IN
           Finish(Call("hash", FALSE, 0, seed, FALSE, h0), hash(Start(h0), seed))

\* The caller is done with the buffers of the call; the module is ready for
\* the next one.
Discard ==
    /\ pc = "done"
    /\ pc' = "idle"
    /\ call' = NoCall
    /\ heap' = <<>>
    /\ trace' = <<>>
    /\ err' = NoErr
    /\ ret' = <<>>
    /\ UNCHANGED <<cupy, handles>>

\* The module after import, with or without a usable cupy.
Init ==
    /\ cupy \in {"cupy", "None"}
    /\ handles = LoadHandles
    /\ pc = "idle"
    /\ call = NoCall
    /\ heap = <<>>
    /\ trace = <<>>
    /\ err = NoErr
    /\ ret = <<>>

Next ==
    \/ Call_clipped_linear
    \/ Call_gelu
    \/ Call_mish
    \/ Call_swish
    \/ Call_backprop_clipped_linear
    \/ Call_backprop_hard_swish
    \/ Call_backprop_hard_swish_mobilenet
    \/ Call_backprop_gelu
    \/ Call_backprop_mish
    \/ Call_backprop_swish
    \/ Call_seq2col
    \/ Call_backprop_seq2col
    \/ Call_maxout
    \/ Call_reduce_sum
    \/ Call_reduce_mean
    \/ Call_reduce_max
    \/ Call_backprop_maxout
    \/ Call_backprop_reduce_sum
    \/ Call_backprop_reduce_mean
    \/ Call_backprop_reduce_max
    \/ Call_hash
    \/ Discard

Spec == Init /\ [][Next]_vars

----------------------------------------------------------------------------
(* Vocabulary of the properties *)

Done == pc = "done"

Backend == cupy # "None"

Returned == Done /\ err.kind = "none"

LaunchEvents == SelectSeq(trace, LAMBDA e : e.ev = "launch")

Launched == LaunchEvents # <<>>

AllocEvents == SelectSeq(trace, LAMBDA e : e.ev = "alloc")

\* The exceptions raised by the validation helpers.
ValidationKinds == {"AssertionError", "ValueError", "IndexError"}

IsFloat(b) == b.dtype \in {"float32", "float64"}

\* Every buffer the caller passed is as the caller passed it.
CallerBuffersUntouched == \A id \in DOMAIN call.pre : heap[id] = call.pre[id]

NoNewBuffer == DOMAIN heap = DOMAIN call.pre

ForwardActivations == {"clipped_linear", "gelu", "mish", "swish"}

BackwardActivations ==
    {"backprop_clipped_linear", "backprop_gelu", "backprop_mish", "backprop_swish",
     "backprop_hard_swish", "backprop_hard_swish_mobilenet"}

\* The functions that take X as their float tensor; the others take a gradient.
TakesX == ForwardActivations \cup {"seq2col", "maxout", "reduce_sum", "reduce_mean", "reduce_max"}

\* The name of the primary input of the call: X, or the gradient.
Primary ==
    CASE call.fn \in TakesX -> "X"
      [] call.fn = "backprop_reduce_sum" -> "d_sum"
      [] call.fn = "backprop_reduce_mean" -> "d_mean"
      [] call.fn = "backprop_reduce_max" -> "d_maxes"
      [] call.fn = "hash" -> "ids"
      [] OTHER -> "dY"

\* The float tensors the caller passes to the call.
FloatArgs == DOMAIN call.pre \ {"lengths", "which", "ids"}

HasNegative(v) == \E i \in DOMAIN v : v[i] < 0

----------------------------------------------------------------------------
(* C1: validation precedes the launch *)

\* C1: a call that ended in a validation error (dtype, shape, lengths or
\* which) launched no kernel and left every buffer of the caller as it was,
\* also with inplace=True; and in every call no validation step comes after a
\* kernel launch in the order of the call's events.
C1_ValidationBeforeLaunch ==
    Done =>
        /\ err.kind \in ValidationKinds => ~Launched /\ CallerBuffersUntouched
        /\ \A i, j \in DOMAIN trace :
               trace[i].ev = "launch" /\ trace[j].ev = "check" => j < i

\* backprop_maxout rejected an out-of-range which after it had already
\* allocated its output buffer.
C1_Witness ==
    /\ Done
    /\ Backend
    /\ call.fn = "backprop_maxout"
    /\ err.kind = "IndexError"
    /\ "out" \in DOMAIN heap
    /\ Prod(call.pre["which"].shape) > 0

----------------------------------------------------------------------------
(* C2: malformed lengths *)

TakesLengthsForward ==
    {"reduce_sum", "reduce_mean", "reduce_max", "seq2col", "backprop_seq2col"}

\* A call of one of the five functions with a float input and an int32
\* lengths vector, on a module with a backend.
C2_Case ==
    /\ Done
    /\ Backend
    /\ call.fn \in TakesLengthsForward
    /\ call.given
    /\ IsFloat(call.pre[Primary])
    /\ call.pre["lengths"].dtype = "int32"

\* C2: with n the rows of the input: a negative length gives the value error
\* (also when the sum is wrong as well); non-negative lengths whose sum is
\* not n give the index error; in both cases nothing is allocated, launched
\* or returned; non-negative lengths that sum to n give neither error.
C2_LengthsErrors ==
    C2_Case =>
        LET v == call.pre["lengths"].vals
            n == call.pre[Primary].shape[1]
        IN  /\ HasNegative(v) =>
                /\ err.kind = "ValueError"
                /\ err.msg = "all sequence lengths must be >= 0"
            /\ ~HasNegative(v) /\ SumSeq(v) # n =>
                /\ err.kind = "IndexError"
                /\ err.msg = "lengths must sum up to the batch size"
            /\ HasNegative(v) \/ SumSeq(v) # n =>
                ~Launched /\ NoNewBuffer /\ ret = <<>> /\ CallerBuffersUntouched
            /\ ~HasNegative(v) /\ SumSeq(v) = n => err.kind = "none"

\* reduce_sum was given lengths that are negative and do not sum to n.
C2_Witness ==
    /\ C2_Case
    /\ call.fn = "reduce_sum"
    /\ HasNegative(call.pre["lengths"].vals)
    /\ SumSeq(call.pre["lengths"].vals) # call.pre["X"].shape[1]
    /\ err.kind = "ValueError"

----------------------------------------------------------------------------
(* C3: bounds of the winning-index buffer *)

\* backprop_maxout reached the range check: backend, float gradient, int32
\* which of the gradient's shape.
C3_MaxoutCase ==
    /\ Done
    /\ Backend
    /\ call.fn = "backprop_maxout"
    /\ IsFloat(call.pre["dY"])
    /\ call.pre["which"].dtype = "int32"
    /\ call.pre["which"].shape = call.pre["dY"].shape

\* backprop_reduce_max reached the range check: backend, float gradient,
\* int32 non-negative lengths, int32 which of shape (len(lengths), O).
C3_ReduceMaxCase ==
    /\ Done
    /\ Backend
    /\ call.fn = "backprop_reduce_max"
    /\ IsFloat(call.pre["d_maxes"])
    /\ call.pre["lengths"].dtype = "int32"
    /\ ~HasNegative(call.pre["lengths"].vals)
    /\ call.pre["which"].dtype = "int32"
    /\ call.pre["which"].shape =
           <<call.pre["lengths"].shape[1], call.pre["d_maxes"].shape[2]>>

\* Some which[b, o] lies outside [0, lengths[b]).
OutsideSegment ==
    LET wh == call.pre["which"]
        ln == call.pre["lengths"].vals
    IN  \E b \in 0..(wh.shape[1] - 1) : \E o \in 0..(wh.shape[2] - 1) :
            ~(At2(wh, b, o) >= 0 /\ At2(wh, b, o) < ln[b + 1])

\* Some which[b, i] lies outside [0, P).
OutsideP ==
    \E i \in DOMAIN call.pre["which"].vals :
        ~(call.pre["which"].vals[i] >= 0 /\ call.pre["which"].vals[i] < call.P)

\* C3: backprop_maxout raises the bounds error exactly when some which[b,i]
\* is outside [0, P); backprop_reduce_max raises it exactly when some
\* which[b,o] is outside [0, lengths[b]), the bound of its own segment;
\* otherwise the kernel is launched.
C3_WhichBounds ==
    /\ C3_MaxoutCase =>
           /\ err.kind = "IndexError" <=> OutsideP
           /\ ~OutsideP => Launched /\ err.kind = "none"
    /\ C3_ReduceMaxCase =>
           /\ err.kind = "IndexError" <=> OutsideSegment
           /\ ~OutsideSegment => Launched /\ err.kind = "none"

\* backprop_reduce_max rejected a which whose entries all lie below the
\* longest segment's length: only the per-segment bound rejects it.
C3_Witness ==
    /\ C3_ReduceMaxCase
    /\ err.kind = "IndexError"
    /\ call.pre["which"].vals # <<>>
    /\ \A i \in DOMAIN call.pre["which"].vals :
           /\ call.pre["which"].vals[i] >= 0
           /\ call.pre["which"].vals[i] < MaxOf(call.pre["lengths"].vals)

----------------------------------------------------------------------------
(* C4: element types and backward shapes *)

\* The first of X, Y (in the order they are checked) whose shape is not dY's.
FirstMismatch ==
    IF call.pre["X"].shape # call.pre["dY"].shape THEN "X" ELSE "Y"

ShapesAgree == \A id \in FloatArgs : call.pre[id].shape = call.pre["dY"].shape

\* C4: a call with a tensor input that is not float32/float64 is rejected by
\* validation; a backward activation whose X (or, for swish, Y) does not have
\* dY's shape is rejected by validation, and when the element types are fine
\* the error is the shape error carrying dY's shape as expected and the
\* offending shape as actual; an activation call with float element types
\* and equal shapes raises neither error.
C4_DtypeAndShape ==
    Done /\ call.fn # "hash" =>
        /\ (\E id \in FloatArgs : ~IsFloat(call.pre[id])) =>
               err.kind \in {"AssertionError", "ValueError"} /\ ~Launched
        /\ call.fn \in BackwardActivations /\ ~ShapesAgree =>
               /\ err.kind \in {"AssertionError", "ValueError"}
               /\ ~Launched
               /\ (\A id \in FloatArgs : IsFloat(call.pre[id])) =>
                      /\ err.kind = "ValueError"
                      /\ err.msg = "array has incorrect shape"
                      /\ err.expected = call.pre["dY"].shape
                      /\ err.was = call.pre[FirstMismatch].shape
        /\ /\ call.fn \in BackwardActivations \cup ForwardActivations
           /\ \A id \in FloatArgs : IsFloat(call.pre[id])
           /\ call.fn \in BackwardActivations => ShapesAgree
           => err.kind \notin {"AssertionError", "ValueError"}

\* backprop_swish rejected a forward output Y of another shape than dY, X
\* having passed.
C4_Witness ==
    /\ Done
    /\ call.fn = "backprop_swish"
    /\ \A id \in FloatArgs : IsFloat(call.pre[id])
    /\ call.pre["X"].shape = call.pre["dY"].shape
    /\ call.pre["Y"].shape # call.pre["dY"].shape
    /\ err.kind = "ValueError"
    /\ err.was = call.pre["Y"].shape

----------------------------------------------------------------------------
(* C5: the module without a compute backend *)

\* The exceptions Python raises when None is called as a kernel handle or
\* used as the cupy module.
NullHandleKinds == {"TypeError", "AttributeError"}

\* C5: on a module loaded without a compute backend no call returns a result
\* and no call fails with the unrelated error of dereferencing a null handle:
\* every call ends in the dedicated "no compute backend" error.
C5_NoBackendError ==
    Done /\ ~Backend => err.kind # "none" /\ err.kind \notin NullHandleKinds

----------------------------------------------------------------------------
(* C6: inplace *)

C6_Case ==
    /\ Returned
    /\ Backend
    /\ call.fn \in ForwardActivations \cup BackwardActivations

\* C6: a returning activation call with inplace=True returns the very buffer
\* it was given (X forward, dY backward) and allocates nothing; with
\* inplace=False it returns a buffer that was not among its inputs, obtained
\* from cupy.zeros with the input's shape and element type, it allocates
\* nothing else and every input buffer is as the caller passed it.
C6_Inplace ==
    C6_Case =>
        /\ call.inplace =>
               ret = <<Primary>> /\ NoNewBuffer /\ AllocEvents = <<>>
        /\ ~call.inplace =>
               /\ ret = <<"out">>
               /\ "out" \notin DOMAIN call.pre
               /\ DOMAIN heap = DOMAIN call.pre \cup {"out"}
               /\ Len(AllocEvents) = 1
               /\ heap["out"].origin = "cupy.zeros"
               /\ heap["out"].shape = call.pre[Primary].shape
               /\ heap["out"].dtype = call.pre[Primary].dtype
               /\ CallerBuffersUntouched

\* backprop_gelu with inplace=True returned dY itself, overwritten by the
\* kernel.
C6_Witness ==
    /\ C6_Case
    /\ call.fn = "backprop_gelu"
    /\ call.inplace
    /\ ret = <<"dY">>
    /\ heap["dY"].tag = "backprop_gelu"
    /\ call.pre["dY"].tag = "caller"

----------------------------------------------------------------------------
(* C7: the kernel a call launches *)

\* The name expression a dispatch function is to launch.
OwnKernelOp ==
    CASE call.fn = "reduce_mean" -> "reduce_sum"
      [] call.fn = "hash" -> "hash_data"
      [] OTHER -> call.fn

\* C7: a call launches at most once, the kernel compiled under the
\* function's own name (reduce_sum for reduce_mean), in the <float> variant
\* exactly when its primary input is float32 and in the <double> variant
\* exactly when it is float64.
C7_OwnKernelAndVariant ==
    Done /\ Launched =>
        /\ Len(LaunchEvents) = 1
        /\ LaunchEvents[1].kernel.op = OwnKernelOp
        /\ call.fn # "hash" =>
               /\ LaunchEvents[1].kernel \in KERNELS_LIST
               /\ LaunchEvents[1].kernel.T = "float"
                      <=> call.pre[Primary].dtype = "float32"
               /\ LaunchEvents[1].kernel.T = "double"
                      <=> call.pre[Primary].dtype = "float64"

\* reduce_mean on a float64 input launched reduce_sum<double>.
C7_Witness ==
    /\ Done
    /\ call.fn = "reduce_mean"
    /\ call.pre["X"].dtype = "float64"
    /\ LaunchEvents = <<Event("launch", K("reduce_sum", "double"),
                              <<"out", "X", "lengths">>)>>

----------------------------------------------------------------------------
(* C8: the winning indices a forward max returns *)

\* C8: after a returning maxout on a (B, I, P) input every entry of the
\* returned which is in [0, P), and after a returning reduce_max every
\* which[b, o] is in [0, lengths[b]), for every input the function accepts.
C8_ReturnedWhichInRange ==
    Returned /\ Backend =>
        /\ call.fn = "maxout" =>
               _values_within_range(heap["which"], 0, call.P)
        /\ call.fn = "reduce_max" =>
               \A b \in 0..(heap["which"].shape[1] - 1) :
                   \A o \in 0..(heap["which"].shape[2] - 1) :
                       /\ At2(heap["which"], b, o) >= 0
                       /\ At2(heap["which"], b, o) < call.pre["lengths"].vals[b + 1]

----------------------------------------------------------------------------
(* C9: seq2col on empty input *)

C9_Case ==
    /\ Done
    /\ Backend
    /\ call.fn \in {"seq2col", "backprop_seq2col"}
    /\ IsFloat(call.pre[Primary])
    /\ call.given => call.pre["lengths"].dtype = "int32"

C9_EmptyLengths == call.given /\ call.pre["lengths"].vals = <<>>

C9_Empty == Prod(call.pre[Primary].shape) = 0 \/ C9_EmptyLengths

\* The shape the output is to have: (B, I*(2*nW+1)) forward, (B, I) backward.
C9_OutShape ==
    LET sh == call.pre[Primary].shape
        nF == 2 * call.nW + 1
    IN  IF call.fn = "seq2col" THEN <<sh[1], sh[2] * nF>> ELSE <<sh[1], sh[2] \div nF>>

C9_ShortCircuit ==
    /\ err.kind = "none"
    /\ ~Launched
    /\ ret = <<"out">>
    /\ heap["out"] = Zeros(call.pre[Primary].dtype, C9_OutShape)

C9_LengthsValid ==
    call.given =>
        /\ ~HasNegative(call.pre["lengths"].vals)
        /\ SumSeq(call.pre["lengths"].vals) = call.pre[Primary].shape[1]

\* C9 as stated: whenever the input has zero size or the lengths vector is
\* empty, the call returns the all-zero output of the contractual shape
\* without raising and without launching, also for an empty lengths vector
\* with B > 0 (lengths, when passed, having no negative entry).
C9_Original ==
    /\ C9_Case
    /\ C9_Empty
    /\ call.given => ~HasNegative(call.pre["lengths"].vals)
    => C9_ShortCircuit

\* C9 as amended: with lengths omitted or non-negative and summing to B, a
\* zero-size input or an empty lengths vector gives the all-zero output of
\* the contractual shape without raising and without launching; an empty
\* lengths vector with B > 0 gives the index error, nothing allocated,
\* launched or returned.
C9_ShortCircuitWhenValid ==
    C9_Case =>
        /\ C9_Empty /\ C9_LengthsValid => C9_ShortCircuit
        /\ C9_EmptyLengths /\ call.pre[Primary].shape[1] > 0 =>
               /\ err.kind = "IndexError"
               /\ err.msg = "lengths must sum up to the batch size"
               /\ ~Launched /\ NoNewBuffer /\ ret = <<>>

\* seq2col short-circuited on a zero-size input of two rows with lengths
\* that sum to two.
C9_Witness ==
    /\ C9_Case
    /\ call.fn = "seq2col"
    /\ call.given
    /\ call.pre["X"].shape[1] > 0
    /\ Prod(call.pre["X"].shape) = 0
    /\ Prod(call.pre["lengths"].shape) > 0
    /\ C9_ShortCircuit

----------------------------------------------------------------------------
(* C10: element types handed to a backward activation kernel *)

\* The element type a kernel variant reads and writes.
VariantDtype(T) == IF T = "float" THEN "float32" ELSE "float64"

\* C10: every float buffer a backward activation hands to the kernel it
\* launches (out, dY, X, and Y for swish) has the element type of the
\* launched variant; a call whose dY and X (or Y) are float of different
\* widths is rejected before any launch.
C10_BuffersMatchVariant ==
    Done /\ call.fn \in BackwardActivations =>
        /\ \A i \in DOMAIN LaunchEvents :
               \A k \in DOMAIN LaunchEvents[i].bufs :
                   heap[LaunchEvents[i].bufs[k]].dtype
                       = VariantDtype(LaunchEvents[i].kernel.T)
        /\ (\E id \in FloatArgs :
                /\ IsFloat(call.pre[id])
                /\ IsFloat(call.pre["dY"])
                /\ call.pre[id].dtype # call.pre["dY"].dtype)
               => ~Launched /\ err.kind # "none"

----------------------------------------------------------------------------
(* C11: rows of the gradient of a segment reduction *)

BackwardReductions ==
    {"backprop_reduce_sum", "backprop_reduce_mean", "backprop_reduce_max"}

\* C11: backprop_reduce_sum, backprop_reduce_mean and backprop_reduce_max
\* launch their kernel only when the gradient has exactly len(lengths) rows,
\* one per segment; a call whose gradient has another number of rows is
\* rejected before the launch.
C11_GradientRowsMatchSegments ==
    Done /\ call.fn \in BackwardReductions =>
        /\ Launched =>
               call.pre[Primary].shape[1] = call.pre["lengths"].shape[1]
        /\ call.pre[Primary].shape[1] # call.pre["lengths"].shape[1] =>
               ~Launched /\ err.kind # "none"

====
